---- MODULE Spec2Model ----
(***************************************************************************)
(* A state-machine model of streamlit_country_app_newlayout.py: the       *)
(* cached spreadsheet loader load_data() and the render pass main(),       *)
(* which binds the two filter widgets, draws the trend chart (tab 1) and   *)
(* the latest-year comparison bar chart (tab 2).                           *)
(*                                                                         *)
(* Numbers.  A stored fraction k/FracDen is the integer k; a percentage    *)
(* is kept in units of 1/FracDen percent, so "* 100" is k * 100 and 100 %  *)
(* is 100 * FracDen.  Axis limits are kept in units of 1/LimScale of that  *)
(* unit so that matplotlib's 5 % margins and the script's 1.1 factor stay  *)
(* exact.  np.nan is the sentinel NaN, smaller than every real value and   *)
(* never equal to a real value; every comparison that involves it is       *)
(* false, as for IEEE floats.                                              *)
(***************************************************************************)
EXTENDS Integers, Sequences, FiniteSets, TLC

VARIABLES
    file,                \* the spreadsheet's content on disk
    fileState,           \* "ok" | "missing" | "corrupt": what pd.read_excel meets
    cache,               \* st.cache_data's entry for load_data: <<>> or <<dataset>>
    reads,               \* how many times pd.read_excel has run in this process
    pc,                  \* position of the render pass
    df,                  \* main's df: <<>> before load_data returned, else <<dataset>>
    out,                 \* elements rendered by the current pass, in order
    selected_countries,  \* value of the multiselect
    selected_display,    \* value of the selectbox
    selected_metrics,    \* column prefix of the chosen metric
    lines,               \* ax.plot calls of the trend chart, in order
    annotations,         \* ax.annotate calls of the trend chart, in order
    ylim,                \* <<>> or <<bottom, top>> as set by ax.set_ylim
    latest_data,         \* the comparison's rows, as drawn (after sorting)
    warned,              \* countries reported incomplete by the comparison
    xlim                 \* <<>> or <<left, right>> of the comparison chart

vars == <<file, fileState, cache, reads, pc, df, out, selected_countries,
          selected_display, selected_metrics, lines, annotations, ylim,
          latest_data, warned, xlim>>

----------------------------------------------------------------------------
(* Bounds of the model *)

NumCountries == 3     \* rows of the small spreadsheets
FracDen == 2          \* stored fractions are 0/FracDen .. FracDen/FracDen
MaxReads == 2         \* passes start only while fewer reads than this happened
MaxPick == 2          \* longest selection picked in an arbitrary order

(* Constants of the program and its libraries *)

NaN == -1             \* np.nan
latest_year == 2023
PaletteSize == 10     \* number of colours of seaborn's "tab10"
LimScale == 10 * 1000    \* axis limits are integers over LimScale

x == <<2019, 2020, 2021, 2022, 2023>>

Kinds == {"%", "Num", "Obs"}

----------------------------------------------------------------------------
(* Sequence helpers *)

Range(s) == {s[i] : i \in DOMAIN s}

Reverse(s) == [i \in 1..Len(s) |-> s[Len(s) + 1 - i]]

Min(a, b) == IF a < b THEN a ELSE b

RECURSIVE SetMax(_)
SetMax(S) ==
    LET e == CHOOSE e \in S : TRUE
    IN  IF S = {e} THEN e
        ELSE LET m == SetMax(S \ {e}) IN IF e > m THEN e ELSE m

RECURSIVE SetMin(_)
SetMin(S) ==
    LET e == CHOOSE e \in S : TRUE
    IN  IF S = {e} THEN e
        ELSE LET m == SetMin(S \ {e}) IN IF e < m THEN e ELSE m

\* the injective sequences over S of length at most n
Picks(S, n) ==
    {s \in UNION {[1..k -> S] : k \in 0..n} :
        \A i, j \in 1..Len(s) : i # j => s[i] # s[j]}

----------------------------------------------------------------------------
(* Metric catalog: main, lines 134-166 *)

metrics_keys ==
    <<"Scaler", "High Growth Firm", "Consistent High Growth Firm",
      "Consistent Hypergrower", "Gazelle", "Mature High Growth Firm",
      "Scaleup", "Superstar">>

metrics_mapping ==
    [k \in Range(metrics_keys) |->
        CASE k = "Scaler" -> "Scaler: Companies with 10%+ growth"
          [] k = "High Growth Firm" -> "High Growth Firm: Companies with 20%+ growth"
          [] k = "Consistent High Growth Firm" ->
                 "Consistent High Growth Firm: Consistent 20%+ growth"
          [] k = "Consistent Hypergrower" ->
                 "Consistent Hypergrower: Consistent 40%+ growth"
          [] k = "Gazelle" -> "Gazelle: Young high growth firms"
          [] k = "Mature High Growth Firm" ->
                 "Mature High Growth Firm: Mature high growth firms"
          [] k = "Scaleup" -> "Scaleup: Young hypergrowers"
          [] k = "Superstar" -> "Superstar: Mature hypergrowers"]

metrics_to_column ==
    [k \in Range(metrics_keys) |->
        CASE k = "Scaler" -> "Scaler"
          [] k = "High Growth Firm" -> "HighGrowthFirm"
          [] k = "Consistent High Growth Firm" -> "ConsistentHighGrowthFirm"
          [] k = "Consistent Hypergrower" -> "VeryHighGrowthFirm"
          [] k = "Gazelle" -> "Gazelle"
          [] k = "Mature High Growth Firm" -> "Mature"
          [] k = "Scaleup" -> "Scaleup"
          [] k = "Superstar" -> "Superstar"]

\* list(metrics_mapping.values())
DisplayOptions == [i \in 1..Len(metrics_keys) |-> metrics_mapping[metrics_keys[i]]]

\* list(values).index(v): the first position holding v
ListIndex(s, v) == CHOOSE i \in 1..Len(s) : s[i] = v /\ \A j \in 1..(i - 1) : s[j] # v

\* list(metrics_mapping.keys())[list(metrics_mapping.values()).index(display)]
selected_user_metrics(display) == metrics_keys[ListIndex(DisplayOptions, display)]

Prefixes == {metrics_to_column[k] : k \in Range(metrics_keys)}

----------------------------------------------------------------------------
(* The spreadsheet.  A dataset has one row per country (countries are      *)
(* numbers, ordered as their names are), a set of columns, and for every   *)
(* country the stored fraction of each year, or NaN for an empty cell.     *)
(* The fraction is Num / Obs, so the Num cell is k and the Obs cell is     *)
(* FracDen; both are empty where the fraction is.                          *)

AllColumns == {<<p, x[i], k>> : p \in Prefixes, i \in 1..Len(x), k \in Kinds}

\* country_data.columns (besides 'Country')
Columns(d) == AllColumns \ d.absent

FracOrNaN == (0..FracDen) \cup {NaN}

YearIndex(year) == CHOOSE i \in 1..Len(x) : x[i] = year

\* country_data[col].iloc[0], for a column the dataset has
Cell(d, country, col) ==
    LET v == d.frac[country][YearIndex(col[2])]
    IN  CASE col[3] = "%" -> v
          [] col[3] = "Num" -> v
          [] col[3] = "Obs" -> IF v = NaN THEN NaN ELSE FracDen

\* the scaling left out: the stored fraction is plotted as it is
Times100_Unscaled(v) == v

\* value * 100 on a float: NaN stays NaN
Times100(v) == IF v = NaN THEN NaN ELSE v * 100

\* the series a country's row can hold, one stored fraction per year of x
SeriesPool ==
    { [i \in 1..Len(x) |-> NaN],
      [i \in 1..Len(x) |-> 0],
      [i \in 1..Len(x) |-> 1],
      <<0, NaN, 1, FracDen - 1, FracDen>> }

\* the rows of a spreadsheet of n countries, last country first
RowsOf(n) == [i \in 1..n |-> n + 1 - i]

\* the sets of columns a spreadsheet may lack
AbsentChoices ==
    { {<<"Scaler", latest_year, "%">>},
      {<<"Scaler", latest_year, "Num">>},
      {<<"Scaler", latest_year, "Obs">>},
      {<<"Scaler", 2019, "%">>, <<"Scaler", 2020, "%">>},
      {<<"VeryHighGrowthFirm", x[i], "%">> : i \in 1..Len(x)} }

\* a series that depends on the country only
SeriesOf(c) == [i \in 1..Len(x) |-> (c + i) % (FracDen + 1)]

DataSets ==
    \* small spreadsheets with every column, any series per country
    { [rows |-> RowsOf(NumCountries), absent |-> {}, frac |-> f] :
        f \in [1..NumCountries -> SeriesPool] }
    \cup
    \* small spreadsheets that lack some columns
    { [rows |-> RowsOf(NumCountries), absent |-> a,
       frac |-> [c \in 1..NumCountries |-> SeriesOf(c)]] : a \in AbsentChoices }
    \cup
    \* a spreadsheet with more countries than the palette has colours
    { [rows |-> RowsOf(PaletteSize + 1), absent |-> {},
       frac |-> [c \in 1..(PaletteSize + 1) |-> SeriesOf(c)]] }

----------------------------------------------------------------------------
(* Python's list and float semantics *)

\* a < b on floats: false as soon as one side is NaN
FloatLt(a, b) == a # NaN /\ b # NaN /\ a < b

\* sorted(set): ascending, for a set of comparable values
RECURSIVE SortedSet(_)
SortedSet(S) ==
    IF S = {} THEN <<>>
    ELSE LET m == SetMin(S) IN <<m>> \o SortedSet(S \ {m})

\* The sort works on a list s of positions whose keys are K[position].

\* listobject.c count_run: length of the run that starts the list, and
\* whether it is strictly descending
RECURSIVE RunEnd(_, _, _, _)
RunEnd(K, s, i, desc) ==
    IF i > Len(s) THEN Len(s)
    ELSE IF FloatLt(K[s[i]], K[s[i - 1]]) = desc
         THEN RunEnd(K, s, i + 1, desc)
         ELSE i - 1

\* listobject.c binarysort's search: where pivot goes in s[1..r], over 0-based l, r
RECURSIVE BinarySlot(_, _, _, _, _)
BinarySlot(K, s, pivot, l, r) ==
    IF l >= r THEN l
    ELSE LET p == l + ((r - l) \div 2)
         IN  IF FloatLt(K[pivot], K[s[p + 1]])
             THEN BinarySlot(K, s, pivot, l, p)
             ELSE BinarySlot(K, s, pivot, p + 1, r)

\* listobject.c binarysort: s[1..start-1] is the run, the rest is inserted
RECURSIVE BinarySort(_, _, _)
BinarySort(K, s, start) ==
    IF start > Len(s) THEN s
    ELSE LET pivot == s[start]
             l == BinarySlot(K, s, pivot, 0, start - 1)
             moved == [i \in 1..Len(s) |->
                         IF i <= l THEN s[i]
                         ELSE IF i = l + 1 THEN pivot
                         ELSE IF i <= start THEN s[i - 1]
                         ELSE s[i]]
         IN  BinarySort(K, moved, start + 1)

\* list.sort for a list shorter than 64: one run, then binary insertion
ListSort(K, s) ==
    IF Len(s) < 2 THEN s
    ELSE LET desc == FloatLt(K[s[2]], K[s[1]])
             n == RunEnd(K, s, 3, desc)
             run == IF desc
                    THEN [i \in 1..Len(s) |-> IF i <= n THEN s[n + 1 - i] ELSE s[i]]
                    ELSE s
         IN  BinarySort(K, run, n + 1)

\* sorted(list, key=..., reverse=True) for the keys K: the positions of the
\* list in their new order (reverse, sort, reverse)
SortedReverse(K) == Reverse(ListSort(K, Reverse([i \in 1..Len(K) |-> i])))

\* max(s) on a non-empty list of floats: a later item wins only if it is greater
RECURSIVE PyMax(_)
PyMax(s) ==
    IF Len(s) = 1 THEN s[1]
    ELSE LET m == PyMax(SubSeq(s, 1, Len(s) - 1))
         IN  IF FloatLt(m, s[Len(s)]) THEN s[Len(s)] ELSE m

----------------------------------------------------------------------------
(* Library behaviour the script relies on *)

\* sns.color_palette("tab10", n): n colours, cycling through the ten of tab10
color_palette(n) == [i \in 1..n |-> (i - 1) % PaletteSize]

\* matplotlib's autoscaled upper y limit, over LimScale, for the plotted
\* values ys (NaN excluded from the data limits): the data interval made
\* non-singular (expander 0.05), then widened by the 5 % margin
AutoscaleTop(ys) ==
    LET finite == {v \in ys : v # NaN}
        lo == IF finite = {} THEN 0 ELSE SetMin(finite)
        hi == IF finite = {} THEN 0 ELSE SetMax(finite)
        x0 == IF hi = 0 THEN -((LimScale \div 20) * FracDen)
              ELSE IF lo = hi THEN lo * LimScale - lo * (LimScale \div 20)
              ELSE lo * LimScale
        x1 == IF hi = 0 THEN (LimScale \div 20) * FracDen
              ELSE IF lo = hi THEN hi * LimScale + hi * (LimScale \div 20)
              ELSE hi * LimScale
    IN  x1 + (x1 - x0) \div 20

----------------------------------------------------------------------------
(* load_data, lines 67-76 *)

\* the decorator left out: every call runs the body
CacheHit_Never == FALSE

\* st.cache_data: a stored return value is served without running the body
CacheHit == cache # <<>>

\* line 109 with a cached table
LoadCached ==
    /\ pc = "load"
    /\ CacheHit
    /\ df' = cache
    /\ pc' = "filters"
    /\ UNCHANGED <<file, fileState, cache, reads, out, selected_countries,
                   selected_display, selected_metrics, lines, annotations, ylim,
                   latest_data, warned, xlim>>

\* line 70 succeeds: the table is returned and cached
LoadRead ==
    /\ pc = "load"
    /\ ~CacheHit
    /\ fileState = "ok"
    /\ reads' = reads + 1
    /\ cache' = <<file>>
    /\ df' = <<file>>
    /\ pc' = "filters"
    /\ UNCHANGED <<file, fileState, out, selected_countries, selected_display,
                   selected_metrics, lines, annotations, ylim, latest_data,
                   warned, xlim>>

\* st.stop left out after the error: the pass goes on to the filters
LoadNotFound_NoStop ==
    /\ pc = "load"
    /\ cache = <<>>
    /\ fileState = "missing"
    /\ reads' = reads + 1
    /\ out' = Append(out, "error_not_found")
    /\ df' = <<file>>
    /\ pc' = "filters"
    /\ UNCHANGED <<file, fileState, cache, selected_countries,
                   selected_display, selected_metrics, lines, annotations, ylim,
                   latest_data, warned, xlim>>

\* lines 71-73: FileNotFoundError, st.error then st.stop; nothing is cached
LoadNotFound ==
    /\ pc = "load"
    /\ ~CacheHit
    /\ fileState = "missing"
    /\ reads' = reads + 1
    /\ out' = Append(out, "error_not_found")
    /\ pc' = "stopped"
    /\ UNCHANGED <<file, fileState, cache, df, selected_countries,
                   selected_display, selected_metrics, lines, annotations, ylim,
                   latest_data, warned, xlim>>

\* lines 74-76: any other exception, st.error then st.stop; nothing is cached
LoadError ==
    /\ pc = "load"
    /\ ~CacheHit
    /\ fileState = "corrupt"
    /\ reads' = reads + 1
    /\ out' = Append(out, "error_loading")
    /\ pc' = "stopped"
    /\ UNCHANGED <<file, fileState, cache, df, selected_countries,
                   selected_display, selected_metrics, lines, annotations, ylim,
                   latest_data, warned, xlim>>

----------------------------------------------------------------------------
(* main, lines 79-176: sidebar, header, filters, empty selection *)

\* a rerun of the script starts: per-pass state is fresh
StartPass ==
    /\ pc \in {"idle", "done", "stopped", "failed"}
    /\ (reads < MaxReads \/ CacheHit)
    /\ pc' = "load"
    /\ out' = <<"sidebar", "header">>
    /\ df' = <<>>
    /\ selected_countries' = <<>>
    /\ selected_display' = ""
    /\ selected_metrics' = ""
    /\ lines' = <<>>
    /\ annotations' = <<>>
    /\ ylim' = <<>>
    /\ latest_data' = <<>>
    /\ warned' = <<>>
    /\ xlim' = <<>>
    /\ UNCHANGED <<file, fileState, cache, reads>>

\* the spreadsheet is replaced, removed or damaged between two passes
FileChange ==
    /\ pc \in {"idle", "done", "stopped", "failed"}
    /\ \E s \in {"ok", "missing", "corrupt"} : s # fileState /\ fileState' = s
    /\ UNCHANGED <<file, cache, reads, pc, df, out, selected_countries,
                   selected_display, selected_metrics, lines, annotations, ylim,
                   latest_data, warned, xlim>>

\* line 117: sorted(df['Country'].unique())
countries(d) == SortedSet(Range(d.rows))

\* line 121: the multiselect's default
DefaultSelection(cs) == IF Len(cs) >= 3 THEN SubSeq(cs, 1, 3) ELSE SubSeq(cs, 1, Min(1, Len(cs)))

\* what the user can have in the multiselect: the default, the first k
\* options, or up to MaxPick options in the order they were picked
Selections(cs) ==
    {DefaultSelection(cs)} \cup {SubSeq(cs, 1, k) : k \in 0..Len(cs)}
    \cup Picks(Range(cs), MaxPick)

\* what the user can have in the selectbox
MetricInputs ==
    {metrics_mapping[k] : k \in {"Scaler", "Consistent Hypergrower"}}

\* the empty-selection return left out
NoCountries_Never(sel) == FALSE

\* line 170: not selected_countries
NoCountries(sel) == sel = <<>>

\* lines 112-185: both widgets, then the preview and return, or the tabs
Filters ==
    /\ pc = "filters"
    /\ \E sel \in Selections(countries(df[1])), display \in MetricInputs :
        LET widgets == out \o <<"multiselect">>
                       \o (IF sel # <<>> THEN <<"pills">> ELSE <<>>)
                       \o <<"selectbox">>
        IN  /\ selected_countries' = sel
            /\ selected_display' = display
            /\ selected_metrics' = metrics_to_column[selected_user_metrics(display)]
            /\ IF NoCountries(sel)
               THEN /\ out' = widgets \o <<"warning_select", "preview">>
                    /\ pc' = "done"
               ELSE /\ out' = widgets \o <<"analysis", "tabs">>
                    /\ pc' = "tab1"
    /\ UNCHANGED <<file, fileState, cache, reads, df, lines, annotations, ylim,
                   latest_data, warned, xlim>>

----------------------------------------------------------------------------
(* main, lines 187-258: the trend tab *)

\* lines 205-210: one value per year, NaN where the '%' column is absent
ylist(d, prefix, country) ==
    [j \in 1..Len(x) |->
        IF <<prefix, x[j], "%">> \in Columns(d)
        THEN Times100(Cell(d, country, <<prefix, x[j], "%">>))
        ELSE NaN]

\* every line drawn in the palette's first colour
LineColor_First(colors, i) == colors[1]

\* line 212: the colour of the i-th plotted line
LineColor(colors, i) == colors[i]

\* countries without any value are not plotted
TrendLines_SkipEmpty(d, prefix, sel) ==
    LET withData == SelectSeq(sel, LAMBDA c :
                        \E j \in 1..Len(x) : ylist(d, prefix, c)[j] # NaN)
        colors == color_palette(Len(sel))
    IN  [i \in 1..Len(withData) |->
            [label |-> withData[i], color |-> colors[i],
             y |-> ylist(d, prefix, withData[i])]]

\* lines 201-212: one ax.plot per selected country, in the loop's order
TrendLines(d, prefix, sel) ==
    LET colors == color_palette(Len(sel))
    IN  [i \in 1..Len(sel) |->
            [label |-> sel[i], color |-> LineColor(colors, i),
             y |-> ylist(d, prefix, sel[i])]]

\* lines 215-226: the annotations of one line, one per value that is not NaN
RECURSIVE LineAnnotations(_, _, _)
LineAnnotations(country, ys, j) ==
    IF j > Len(ys) THEN <<>>
    ELSE (IF ys[j] # NaN
          THEN <<[country |-> country, year |-> x[j], val |-> ys[j]]>>
          ELSE <<>>)
         \o LineAnnotations(country, ys, j + 1)

RECURSIVE TrendAnnotations(_, _)
TrendAnnotations(ls, i) ==
    IF i > Len(ls) THEN <<>>
    ELSE LineAnnotations(ls[i].label, ls[i].y, 1) \o TrendAnnotations(ls, i + 1)

\* every value handed to ax.plot
Plotted(ls) == {ls[i].y[j] : i \in 1..Len(ls), j \in 1..Len(x)}

\* the 1.1 factor left out
TrendYLim_NoHeadroom(ls) == <<0, AutoscaleTop(Plotted(ls))>>

\* lines 234-235: bottom, top = ax.get_ylim(); ax.set_ylim(0, top * 1.1)
TrendYLim(ls) == <<0, (AutoscaleTop(Plotted(ls)) * 11) \div 10>>

Trend ==
    /\ pc = "tab1"
    /\ LET ls == TrendLines(df[1], selected_metrics, selected_countries)
       IN  /\ lines' = ls
           /\ annotations' = TrendAnnotations(ls, 1)
           /\ ylim' = TrendYLim(ls)
    /\ out' = Append(out, "trend_chart")
    /\ pc' = "tab2"
    /\ UNCHANGED <<file, fileState, cache, reads, df, selected_countries,
                   selected_display, selected_metrics, latest_data, warned, xlim>>

----------------------------------------------------------------------------
(* main, lines 261-324: the comparison tab and the footer *)

\* line 268: the rows of filtered_data for one country, in file order
country_data(d, country) == SelectSeq(d.rows, LAMBDA r : r = country)

\* lines 270-272 raise KeyError for a missing column and IndexError for
\* a country without a row; line 280 catches both
Incomplete(d, prefix, country) ==
    \/ \E k \in Kinds : <<prefix, latest_year, k>> \notin Columns(d)
    \/ country_data(d, country) = <<>>

\* lines 274-279: the row appended for a country
LatestRow(d, prefix, country) ==
    [Country |-> country,
     Percentage |-> Times100(Cell(d, country, <<prefix, latest_year, "%">>)),
     Number |-> Cell(d, country, <<prefix, latest_year, "Num">>),
     Total |-> Cell(d, country, <<prefix, latest_year, "Obs">>)]

\* lines 267-281: the rows collected, in selection order
RECURSIVE Collect(_, _, _, _)
Collect(d, prefix, sel, i) ==
    IF i > Len(sel) THEN <<>>
    ELSE (IF Incomplete(d, prefix, sel[i]) THEN <<>>
          ELSE <<LatestRow(d, prefix, sel[i])>>)
         \o Collect(d, prefix, sel, i + 1)

\* lines 280-281: the countries warned about, in selection order
Warnings(d, prefix, sel) == SelectSeq(sel, LAMBDA c : Incomplete(d, prefix, c))

\* line 285
SortByPercentage(rows) ==
    LET order == SortedReverse([i \in 1..Len(rows) |-> rows[i].Percentage])
    IN  [i \in 1..Len(rows) |-> rows[order[i]]]

\* the comparison drawn from one country on
EnoughCountries_AtLeastOne(sel) == Len(sel) > 0

\* line 263
EnoughCountries(sel) == Len(sel) > 1

\* line 311: max(percentages) * 1.2, over LimScale
XRight(rows) ==
    LET m == PyMax([i \in 1..Len(rows) |-> rows[i].Percentage])
    IN  IF m = NaN THEN NaN ELSE (m * LimScale * 12) \div 10

Comparison ==
    /\ pc = "tab2"
    /\ IF EnoughCountries(selected_countries)
       THEN LET rows == Collect(df[1], selected_metrics, selected_countries, 1)
                w == Warnings(df[1], selected_metrics, selected_countries)
                notes == [i \in 1..Len(w) |-> "warning_incomplete"]
                sorted == SortByPercentage(rows)
            IN  /\ warned' = w
                /\ IF rows = <<>>
                   THEN /\ latest_data' = rows
                        /\ xlim' = xlim
                        /\ out' = out \o notes \o <<"warning_insufficient", "footer">>
                        /\ pc' = "done"
                   ELSE /\ latest_data' = sorted
                        /\ IF XRight(sorted) = NaN
                           \* ax.set_xlim(0, nan) raises ValueError: the pass ends
                           \* with the exception shown, before st.pyplot
                           THEN /\ xlim' = xlim
                                /\ out' = out \o notes \o <<"exception">>
                                /\ pc' = "failed"
                           ELSE /\ xlim' = <<0, XRight(sorted)>>
                                /\ out' = out \o notes \o <<"comparison_chart", "footer">>
                                /\ pc' = "done"
       ELSE /\ out' = out \o <<"info_two", "footer">>
            /\ pc' = "done"
            /\ UNCHANGED <<latest_data, warned, xlim>>
    /\ UNCHANGED <<file, fileState, cache, reads, df, selected_countries,
                   selected_display, selected_metrics, lines, annotations, ylim>>

----------------------------------------------------------------------------
Init ==
    /\ file \in DataSets
    /\ fileState \in {"ok", "missing", "corrupt"}
    /\ cache = <<>>
    /\ reads = 0
    /\ pc = "idle"
    /\ df = <<>>
    /\ out = <<>>
    /\ selected_countries = <<>>
    /\ selected_display = ""
    /\ selected_metrics = ""
    /\ lines = <<>>
    /\ annotations = <<>>
    /\ ylim = <<>>
    /\ latest_data = <<>>
    /\ warned = <<>>
    /\ xlim = <<>>

Next ==
    \/ StartPass
    \/ FileChange
    \/ LoadCached
    \/ LoadRead
    \/ LoadNotFound
    \/ LoadError
    \/ Filters
    \/ Trend
    \/ Comparison

Spec == Init /\ [][Next]_vars

----------------------------------------------------------------------------
(* Properties *)

Rendered(e) == e \in Range(out)

Count(s, c) == Cardinality({i \in 1..Len(s) : s[i] = c})

Bars(c) == Cardinality({i \in 1..Len(latest_data) : latest_data[i].Country = c})

ComparisonRan == pc \in {"done", "failed"} /\ Len(selected_countries) > 1

\* the country has no latest-year data for the prefix: one of the three
\* columns is not in the table, or the country's cell in one of them is empty
LacksLatest(d, prefix, c) ==
    \E k \in Kinds :
        \/ <<prefix, latest_year, k>> \notin Columns(d)
        \/ Cell(d, c, <<prefix, latest_year, k>>) = NaN

\* C1: in a pass with at least two selected countries, every selected
\* country is exactly one bar or exactly one warning, and a country without
\* latest-year data for the metric is a warning and no bar (Germany with
\* data and France without: one bar, one warning).
C1_BarOrWarning ==
    ComparisonRan =>
        \A i \in 1..Len(selected_countries) :
            LET c == selected_countries[i]
            IN  /\ Bars(c) + Count(warned, c) = 1
                /\ LacksLatest(df[1], selected_metrics, c) =>
                       (Bars(c) = 0 /\ Count(warned, c) = 1)

\* C2: the bars of a drawn comparison chart are in descending order of
\* percentage (a greater percentage never comes after a smaller one), and
\* equal percentages keep the order of the selection.
C2_SortedDescending ==
    Rendered("comparison_chart") =>
        \A i, j \in 1..Len(latest_data) :
            LET A == latest_data[i]
                B == latest_data[j]
                PosA == ListIndex(selected_countries, A.Country)
                PosB == ListIndex(selected_countries, B.Country)
            IN  /\ FloatLt(B.Percentage, A.Percentage) => i < j
                /\ (A.Percentage # NaN /\ A.Percentage = B.Percentage /\ PosA < PosB)
                       => i < j

\* C3: with fewer than two selected countries no comparison chart is ever
\* rendered; a finished pass with exactly one selected country shows the
\* "select at least two" message and a trend chart of exactly one line.
C3_NoChartBelowTwo ==
    /\ Len(selected_countries) < 2 => ~Rendered("comparison_chart")
    /\ (pc = "done" /\ Len(selected_countries) = 1) =>
           /\ Rendered("info_two")
           /\ Rendered("trend_chart")
           /\ Len(lines) = 1
           /\ lines[1].label = selected_countries[1]
           /\ latest_data = <<>>

C3_Witness ==
    /\ pc = "done"
    /\ Len(selected_countries) = 1
    /\ Rendered("info_two")
    /\ Rendered("trend_chart")

\* C4: a pass with an empty selection renders the preview and then nothing:
\* no tabs, no trend chart, no comparison chart and no comparison message.
C4_PreviewOnly ==
    (selected_countries = <<>>) =>
        /\ \A e \in {"tabs", "analysis", "trend_chart", "comparison_chart",
                     "info_two", "warning_incomplete", "warning_insufficient"} :
               ~Rendered(e)
        /\ lines = <<>> /\ latest_data = <<>> /\ warned = <<>>
        /\ pc = "done" => (Rendered("preview") /\ out[Len(out)] = "preview")

C4_Witness ==
    pc = "done" /\ selected_countries = <<>> /\ Rendered("preview")

TrendDrawn == Rendered("trend_chart")

\* C5: the trend chart has exactly one line per selected country, in
\* selection order; a country with no value in any year still has its line
\* (and so its legend entry) but no annotation.
C5_OneLinePerCountry ==
    TrendDrawn =>
        /\ Len(lines) = Len(selected_countries)
        /\ \A i \in 1..Len(lines) :
               /\ lines[i].label = selected_countries[i]
               /\ (\A j \in 1..Len(x) : lines[i].y[j] = NaN) =>
                      ~\E k \in 1..Len(annotations) :
                          annotations[k].country = lines[i].label

C5_Witness ==
    /\ TrendDrawn
    /\ Len(lines) >= 2
    /\ lines[1].label > lines[2].label
    /\ \E i \in 1..Len(lines) : \A j \in 1..Len(x) : lines[i].y[j] = NaN
    /\ annotations # <<>>

\* C6 as stated: the spreadsheet is read exactly once, whatever the number
\* of passes.
C6_ReadExactlyOnce == reads <= 1

\* C6 as amended: once a read has succeeded, no pass reads the file again
\* and load_data returns the cached table; a failed read caches nothing.
C6_NoReadAfterSuccess ==
    /\ [](cache # <<>> => (df = <<>> \/ df = cache))
    /\ [](cache = <<>> => df = <<>>)
    /\ [][cache # <<>> => (reads' = reads /\ cache' = cache)]_vars

C6_Witness ==
    /\ cache # <<>>
    /\ pc = "filters"
    /\ df = cache
    /\ fileState # "ok"

LoadFailed == Rendered("error_not_found") \/ Rendered("error_loading")

\* C7: a failed load shows its error as the last element of the pass (no
\* filter widget, preview or chart after it), the pass stays stopped with
\* nothing more rendered, and the next thing that happens is a new pass.
C7_FailureStopsPassOnly ==
    /\ [](LoadFailed <=> pc = "stopped")
    /\ [](pc = "stopped" =>
            /\ out[Len(out)] \in {"error_not_found", "error_loading"}
            /\ \A i \in 1..(Len(out) - 1) : out[i] \in {"sidebar", "header"}
            /\ df = <<>> /\ lines = <<>> /\ latest_data = <<>>)
    /\ [][pc = "stopped" => (pc' = "load" \/ (pc' = "stopped" /\ out' = out))]_vars

\* a pass that ran to its end after an earlier pass failed to load
C7_Witness ==
    /\ pc = "done"
    /\ reads >= 2
    /\ Rendered("footer")

\* C8: a plotted value is the missing marker or the stored fraction times
\* 100, within [0, 100]; it is the missing marker when the '%' column is
\* absent, and the trend chart is drawn whatever the table holds.
C8_ExtractInRange ==
    /\ pc \in {"tab2", "done", "failed"} /\ selected_countries # <<>> => TrendDrawn
    /\ \A i \in 1..Len(lines), j \in 1..Len(x) :
           LET v == lines[i].y[j]
               col == <<selected_metrics, x[j], "%">>
           IN  /\ v = NaN \/ (0 <= v /\ v <= 100 * FracDen)
               /\ col \notin Columns(df[1]) => v = NaN
               /\ col \in Columns(df[1]) =>
                      LET stored == df[1].frac[lines[i].label][j]
                      IN  IF stored = NaN THEN v = NaN ELSE v = 100 * stored

C8_Witness ==
    /\ TrendDrawn
    /\ \E i \in 1..Len(lines), j, k \in 1..Len(x) :
           /\ <<selected_metrics, x[j], "%">> \notin Columns(df[1])
           /\ lines[i].y[j] = NaN
           /\ lines[i].y[k] = 100 * FracDen

\* C9 as stated: no two lines of the trend chart share a colour.
C9_DistinctColors ==
    \A i, j \in 1..Len(lines) : i # j => lines[i].color # lines[j].color

\* C9 as amended: the i-th line has the i-th colour of tab10 counted
\* cyclically, so two lines share a colour exactly when their positions
\* differ by a multiple of ten; up to ten countries all colours differ.
C9_ColorsCycle ==
    /\ \A i \in 1..Len(lines) : lines[i].color = color_palette(Len(lines))[i]
    /\ \A i, j \in 1..Len(lines) :
           (lines[i].color = lines[j].color) <=> ((i - j) % PaletteSize = 0)
    /\ Len(lines) <= PaletteSize => C9_DistinctColors

C9_Witness ==
    /\ Len(lines) > PaletteSize
    /\ lines[1].color = lines[PaletteSize + 1].color
    /\ lines[1].color # lines[2].color

FinitePlotted == {v \in Plotted(lines) : v # NaN}

\* C10 as stated: the y axis runs from 0 to exactly 1.1 times the greatest
\* plotted percentage.
C10_TopIsMaxPlusTenth ==
    (TrendDrawn /\ FinitePlotted # {}) =>
        ylim = <<0, (SetMax(FinitePlotted) * LimScale * 11) \div 10>>

\* C10 as amended: the y axis starts at exactly 0 and ends at 1.1 times the
\* axis' autoscaled top, which lies above the greatest plotted percentage M:
\* M plus 5 % of M - m when the plotted values differ (m the smallest),
\* 1.055 M when they are all M > 0, and 0.055 when nothing or only zeros
\* are plotted.
C10_TopIsAutoscaledPlusTenth ==
    TrendDrawn =>
        /\ ylim[1] = 0
        /\ LET fin == FinitePlotted
               M == IF fin = {} THEN 0 ELSE SetMax(fin)
               m == IF fin = {} THEN 0 ELSE SetMin(fin)
           IN  /\ ylim[2] * 10 > 11 * M * LimScale
               /\ M > m => ylim[2] * 20 = 11 * (21 * M - m) * (LimScale \div 10)
               /\ (M = m /\ M > 0) =>
                      ylim[2] * 10 = 11 * 1055 * M * (LimScale \div 1000)
               /\ M = 0 => ylim[2] * 10 = 11 * 55 * FracDen * (LimScale \div 1000)

C10_Witness ==
    /\ TrendDrawn
    /\ Len(lines) >= 2
    /\ \E v, w \in FinitePlotted : 0 < v /\ v < w
    /\ NaN \in Plotted(lines)
    /\ ylim[2] > 0

====
